---- MODULE Spec2Model ----
(***************************************************************************)
(* GravityVecField: the gravity integrator (GravityPhysicsSystem), the     *)
(* vector-field sampler (Vec2FieldSystem) and the frame loop of            *)
(* FirstApp::run, from src/first_app.cpp.                                  *)
(*                                                                         *)
(* The program computes in C++ `float`.  A float is modelled as a binary   *)
(* floating-point number m * 2^e with a MantBits-bit significand, every    *)
(* operation rounded to nearest, ties to even, as IEEE-754 does.  The      *)
(* exponent is unbounded (no overflow, underflow, infinities or NaN) and   *)
(* zero is unsigned.  binary32 has a 24-bit significand; products of two   *)
(* such significands do not fit TLC's integers, so the width is scaled.    *)
(***************************************************************************)
EXTENDS Integers, Sequences, FiniteSets

(***************************************************************************)
(* Bounds of the model.                                                    *)
(***************************************************************************)
MantBits == 6       \* significand width of the modelled float
MaxBodies == 3      \* longest body sequence
MaxSubsteps == 3    \* largest substeps argument
MaxFrames == 2      \* frames that are followed
GridCount == 1      \* the field is a GridCount x GridCount grid (40 in run())

(***************************************************************************)
(* Integer helpers.                                                        *)
(***************************************************************************)
Abs(n) == IF n < 0 THEN -n ELSE n

Sgn(n) == IF n < 0 THEN -1 ELSE IF n > 0 THEN 1 ELSE 0

Pow2(n) == IF n <= 0 THEN 1 ELSE 2 ^ n

RECURSIVE BitLen(_)
BitLen(n) == IF n <= 0 THEN 0 ELSE 1 + BitLen(n \div 2)

RECURSIVE ISqrt(_)
ISqrt(n) ==
    IF n < 2 THEN n
    ELSE LET s == 2 * ISqrt(n \div 4)
         IN  IF (s + 1) * (s + 1) <= n THEN s + 1 ELSE s

(***************************************************************************)
(* The float type: [m, e] is m * 2^e, normalised so that                   *)
(* 2^(MantBits-1) <= |m| < 2^MantBits, or m = 0 and e = 0.                 *)
(***************************************************************************)
Zero == [m |-> 0, e |-> 0]

\* n * 2^e rounded to the format: nearest, ties to even.
Rnd(n, e) ==
    LET a == Abs(n)
        b == BitLen(a)
    IN  IF a = 0 THEN Zero
        ELSE IF b <= MantBits
        THEN [m |-> n * Pow2(MantBits - b), e |-> e - (MantBits - b)]
        ELSE LET sh == b - MantBits
                 q == a \div Pow2(sh)
                 r == a % Pow2(sh)
                 half == Pow2(sh - 1)
                 q1 == IF r > half \/ (r = half /\ q % 2 = 1) THEN q + 1 ELSE q
             IN  IF q1 = Pow2(MantBits)
                 THEN [m |-> Sgn(n) * Pow2(MantBits - 1), e |-> e + sh + 1]
                 ELSE [m |-> Sgn(n) * q1, e |-> e + sh]

\* Long division: k more quotient bits of rem / d, with rem < d.
RECURSIVE DivBits(_, _, _, _)
DivBits(q, rem, d, k) ==
    IF k = 0 THEN <<q, rem>>
    ELSE IF 2 * rem >= d THEN DivBits(2 * q + 1, 2 * rem - d, d, k - 1)
         ELSE DivBits(2 * q, 2 * rem, d, k - 1)

\* (n / d) * 2^e for integers n >= 0, d > 0, correctly rounded: the quotient
\* to MantBits + 2 bits, and one more bit that says the remainder is not zero.
Ratio(n, d, e) ==
    IF n = 0 THEN Zero
    ELSE LET bn == BitLen(n)
             bd == BitLen(d)
             n1 == IF bn < bd THEN n * Pow2(bd - bn) ELSE n
             d1 == IF bn > bd THEN d * Pow2(bn - bd) ELSE d
             e1 == e + (bn - bd)
             \* now n1 and d1 have the same length: n1 / d1 is in (1/2, 2)
             n2 == IF n1 < d1 THEN 2 * n1 ELSE n1
             e2 == IF n1 < d1 THEN e1 - 1 ELSE e1
             qr == DivBits(1, n2 - d1, d1, MantBits + 1)
             sticky == IF qr[2] = 0 THEN 0 ELSE 1
         IN  Rnd(2 * qr[1] + sticky, e2 - (MantBits + 2))

FromInt(n) == Rnd(n, 0)

FNeg(a) == [m |-> -a.m, e |-> a.e]

FAbs(a) == [m |-> Abs(a.m), e |-> a.e]

FMul(a, b) == Rnd(a.m * b.m, a.e + b.e)

\* The exact sum when the exponents are close; otherwise the smaller operand
\* only decides the rounding direction.
FAdd(a, b) ==
    IF a.m = 0 THEN b
    ELSE IF b.m = 0 THEN a
    ELSE LET hi == IF a.e >= b.e THEN a ELSE b
             lo == IF a.e >= b.e THEN b ELSE a
             d == hi.e - lo.e
         IN  IF d > MantBits + 2
             THEN Rnd(8 * hi.m + Sgn(lo.m), hi.e - 3)
             ELSE Rnd(hi.m * Pow2(d) + lo.m, lo.e)

FSub(a, b) == FAdd(a, FNeg(b))

FDiv(a, b) ==
    LET r == Ratio(Abs(a.m), Abs(b.m), a.e - b.e)
    IN  IF Sgn(a.m) * Sgn(b.m) < 0 THEN FNeg(r) ELSE r

FLess(a, b) == FSub(a, b).m < 0

FSqrt(a) ==
    IF a.m <= 0 THEN Zero
    ELSE LET odd == a.e % 2 = 1
             mm == IF odd THEN 2 * a.m ELSE a.m
             ee == IF odd THEN a.e - 1 ELSE a.e
             k == (MantBits + 4) \div 2
             n == mm * Pow2(2 * k)
             s == ISqrt(n)
             sticky == IF s * s = n THEN 0 ELSE 1
         IN  Rnd(2 * s + sticky, (ee \div 2) - k - 1)

One == FromInt(1)

(***************************************************************************)
(* glm::log (natural logarithm): log2 by repeated squaring of the          *)
(* significand in fixed point, times ln 2 (355/512), rounded to the        *)
(* format.  FLog(1) = 0 exactly, and FLog is >= 0 on arguments >= 1.       *)
(***************************************************************************)
LogFracBits == MantBits + 6

RECURSIVE Log2Frac(_, _, _)
Log2Frac(y, k, acc) ==
    IF k = 0 THEN acc
    ELSE LET y2 == (y * y) \div Pow2(LogFracBits)
         IN  IF y2 >= Pow2(LogFracBits + 1)
             THEN Log2Frac(y2 \div 2, k - 1, 2 * acc + 1)
             ELSE Log2Frac(y2, k - 1, 2 * acc)

FLog(x) ==
    LET ip == x.e + MantBits - 1
        y0 == x.m * Pow2(LogFracBits - (MantBits - 1))
        l2 == ip * Pow2(LogFracBits) + Log2Frac(y0, LogFracBits, 0)
    IN  Rnd(l2 * 355, -(LogFracBits + 9))

(***************************************************************************)
(* atan2.  The angle of the smaller over the larger of |y|, |x|, in        *)
(* [0, pi/4]: by the series r - r^3/3 when the ratio is below 1/8, by      *)
(* CORDIC in fixed point (units of 2^-14 radian) otherwise; then the       *)
(* octant is restored.  atan2(0, 0) = 0.                                   *)
(***************************************************************************)
AtanTable ==
    <<12868, 7596, 4014, 2037, 1023, 512, 256, 128, 64, 32, 16, 8, 4, 2, 1>>

PiFixed == 4 * AtanTable[1]

RECURSIVE Cordic(_, _, _, _)
Cordic(x, y, z, k) ==
    IF k = Len(AtanTable) \/ y = 0 THEN z
    ELSE IF y > 0
         THEN Cordic(x + y \div Pow2(k), y - x \div Pow2(k), z + AtanTable[k + 1], k + 1)
         ELSE Cordic(x - y \div Pow2(k), y + x \div Pow2(k), z - AtanTable[k + 1], k + 1)

\* atan(r) for a float r in (0, 1].
AtanUnit(r) ==
    IF r.e + MantBits <= -3
    THEN FSub(r, FDiv(FMul(FMul(r, r), r), FromInt(3)))
    ELSE Rnd(Cordic(Pow2(12), r.m * Pow2(12 + r.e), 0, 0), -14)

\* A float angle in [0, pi/4] in units of 2^-14 radian.
ToAngleUnits(a) ==
    IF a.m = 0 \/ a.e + 14 < -MantBits THEN 0
    ELSE IF a.e + 14 >= 0 THEN a.m * Pow2(a.e + 14)
    ELSE (a.m + Pow2(-(a.e + 14) - 1)) \div Pow2(-(a.e + 14))

FAtan2(y, x) ==
    IF y.m = 0 THEN (IF x.m >= 0 THEN Zero ELSE Rnd(PiFixed, -14))
    ELSE IF x.m = 0 THEN Rnd(Sgn(y.m) * (PiFixed \div 2), -14)
    ELSE LET ay == FAbs(y)
             ax == FAbs(x)
             steep == FLess(ax, ay)
             base == AtanUnit(IF steep THEN FDiv(ax, ay) ELSE FDiv(ay, ax))
             a1 == IF steep THEN PiFixed \div 2 - ToAngleUnits(base)
                   ELSE ToAngleUnits(base)
             a2 == IF x.m < 0 THEN PiFixed - a1 ELSE a1
         IN  IF x.m > 0 /\ ~steep
             THEN (IF y.m < 0 THEN FNeg(base) ELSE base)
             ELSE Rnd(Sgn(y.m) * a2, -14)

(***************************************************************************)
(* glm::vec2 and its operators.                                            *)
(***************************************************************************)
Vec2(x, y) == [x |-> x, y |-> y]

ZeroVec == Vec2(Zero, Zero)

VAdd(a, b) == Vec2(FAdd(a.x, b.x), FAdd(a.y, b.y))

VSub(a, b) == Vec2(FSub(a.x, b.x), FSub(a.y, b.y))

VNeg(a) == Vec2(FNeg(a.x), FNeg(a.y))

VScale(s, a) == Vec2(FMul(s, a.x), FMul(s, a.y))

VDivS(a, s) == Vec2(FDiv(a.x, s), FDiv(a.y, s))

Dot(a, b) == FAdd(FMul(a.x, b.x), FMul(a.y, b.y))

Length(a) == FSqrt(Dot(a, a))

FMax(a, b) == IF FLess(a, b) THEN b ELSE a

FMin(a, b) == IF FLess(b, a) THEN b ELSE a

Clamp(x, lo, hi) == FMin(FMax(x, lo), hi)

(***************************************************************************)
(* Literals of the program.                                                *)
(***************************************************************************)
DistanceEpsilon == Ratio(1, 9765625, -10)    \* 1e-10f = 2^-10 / 5^10

ScaleMin == Ratio(5, 1000, 0)                \* 0.005f

ScaleRange == Ratio(45, 1000, 0)             \* 0.045f

Three == FromInt(3)                          \* 3.f

Half == Ratio(1, 2, 0)                       \* 0.5f

\* A game object as SveGameObject::createGameObject() leaves it, with the
\* fields the two systems read or write.
GameObject(translation, scale, velocity, mass) ==
    [translation |-> translation, scale |-> scale, rotation |-> Zero,
     velocity |-> velocity, mass |-> mass]

(***************************************************************************)
(* Inputs.  run() builds two bodies and passes 0.81f, 1/60 and 5; the two  *)
(* systems take any body sequence, strength, dt and substeps, so further   *)
(* bodies, a strength of 1 and a dt of 1 are followed as well.             *)
(***************************************************************************)
BodyScale == Vec2(Ratio(5, 100, 0), Ratio(5, 100, 0))

\* Two unit masses at (1,0) and (-1,0) at rest; two heavier bodies that start
\* 2^-18 from the origin, closer to each other than the near-zero
\* clamp of computeForce, and fly apart; and a body that coincides with the
\* first.
BodyPool ==
    << GameObject(Vec2(One, Zero), BodyScale, ZeroVec, One),
       GameObject(Vec2(FNeg(One), Zero), BodyScale, ZeroVec, One),
       GameObject(Vec2(Zero, Rnd(1, -18)), BodyScale, Vec2(FNeg(Half), Rnd(1, -2)), FromInt(3)),
       GameObject(Vec2(Rnd(1, -18), Zero), BodyScale, Vec2(Half, Zero), FromInt(5)),
       GameObject(Vec2(One, Zero), BodyScale, ZeroVec, FromInt(5)) >>

StrengthSet == {One, Ratio(81, 100, 0)}

DtSet == {One, Ratio(1, 60, 0)}

\* The bodies run() creates, red and blue; run() leaves their mass at the
\* default of SveGameObject, taken to be 1.
RunBodies ==
    << GameObject(Vec2(Half, Half), BodyScale, Vec2(FNeg(Half), Zero), One),
       GameObject(Vec2(FNeg(Ratio(45, 100, 0)), FNeg(Ratio(25, 100, 0))), BodyScale,
                  Vec2(Half, Zero), One) >>

\* The body sequences: the bodies of run(), and at most MaxBodies bodies of
\* the pool, in its order.
InitialBodySeqs ==
    LET idx == UNION {[1..n -> 1..Len(BodyPool)] : n \in 0..MaxBodies}
    IN  {RunBodies} \cup
        {[k \in 1..Len(s) |-> BodyPool[s[k]]] :
            s \in {t \in idx : \A k \in 1..(Len(t) - 1) : t[k] < t[k + 1]}}

\* The grid of field lines of run().
GridCoord(i) ==
    FAdd(FNeg(One),
         FDiv(FMul(FAdd(FromInt(i), Half), FromInt(2)), FromInt(GridCount)))

InitialField ==
    [k \in 1..(GridCount * GridCount) |->
        GameObject(Vec2(GridCoord((k - 1) \div GridCount),
                        GridCoord((k - 1) % GridCount)),
                   Vec2(ScaleMin, ScaleMin), ZeroVec, One)]

VARIABLES
    physicsObjects,  \* run(): std::vector<SveGameObject> physicsObjects
    vectorField,     \* run(): std::vector<SveGameObject> vectorField
    strengthGravity, \* GravityPhysicsSystem::strengthGravity
    dt,              \* update(): dt
    substeps,        \* update(): substeps
    stepDelta,       \* update(): stepDelta
    i,               \* update(): the loop counter
    iterA,           \* stepSimulation(): iterA, as an index; Len + 1 is end()
    iterB,           \* stepSimulation(): iterB
    pc,              \* where the frame loop is
    frame,           \* history: the frames rendered so far
    stepStart,       \* history: physicsObjects when the current step began
    applied,         \* history: the pairs a force was applied to in this step
    lastPair,        \* history: the last pairwise application
    steps,           \* history: the dt of each stepSimulation call of this update
    sampledFrom,     \* history: the bodies Vec2FieldSystem::update last read
    rendered         \* history: what renderGameObjects was last handed

vars ==
    <<physicsObjects, vectorField, strengthGravity, dt, substeps, stepDelta, i,
      iterA, iterB, pc, frame, stepStart, applied, lastPair, steps, sampledFrom,
      rendered>>

NoPair == [a |-> 0, b |-> 0, force |-> ZeroVec, before |-> <<>>, after |-> <<>>]

NoRender ==
    [frame |-> 0, bodies |-> <<>>, field |-> <<>>, steps |-> <<>>, sampledFrom |-> <<>>]

Init ==
    /\ physicsObjects \in InitialBodySeqs
    /\ vectorField = InitialField
    /\ strengthGravity \in StrengthSet
    /\ dt \in DtSet
    /\ substeps \in 1..MaxSubsteps
    /\ stepDelta = Zero
    /\ i = 0
    /\ iterA = 1
    /\ iterB = 1
    /\ pc = "loop"
    /\ frame = 0
    /\ stepStart = physicsObjects
    /\ applied = <<>>
    /\ lastPair = NoPair
    /\ steps = <<>>
    /\ sampledFrom = <<>>
    /\ rendered = NoRender

(***************************************************************************)
(* GravityPhysicsSystem::computeForce                                      *)
(***************************************************************************)
\* Mutant: the mass of the source twice, the mass of the target never.
MassProduct_SourceTwice(fromObj, toObj) ==
    FMul(FMul(strengthGravity, fromObj.mass), fromObj.mass)

\* Mutant: only an exactly zero distance is clamped.
TooClose_ExactZero(distanceSquared) == distanceSquared = Zero

Offset(fromObj, toObj) == VSub(fromObj.translation, toObj.translation)

TooClose(distanceSquared) == FLess(FAbs(distanceSquared), DistanceEpsilon)

MassProduct(fromObj, toObj) ==
    FMul(FMul(strengthGravity, toObj.mass), fromObj.mass)

ForceMagnitude(fromObj, toObj, distanceSquared) ==
    FDiv(MassProduct(fromObj, toObj), distanceSquared)

computeForce(fromObj, toObj) ==
    LET offset == Offset(fromObj, toObj)
        distanceSquared == Dot(offset, offset)
    IN  IF TooClose(distanceSquared) THEN ZeroVec
        ELSE VDivS(VScale(ForceMagnitude(fromObj, toObj, distanceSquared), offset),
                   FSqrt(distanceSquared))

(***************************************************************************)
(* The frame loop of FirstApp::run                                         *)
(***************************************************************************)
\* while (!shouldClose()) ... beginFrame() returns a command buffer: the
\* frame calls gravitySystem.update.
BeginFrame ==
    /\ pc = "loop"
    /\ frame < MaxFrames
    /\ pc' = "update"
    /\ UNCHANGED <<physicsObjects, vectorField, strengthGravity, dt, substeps,
                   stepDelta, i, iterA, iterB, frame, stepStart, applied,
                   lastPair, steps, sampledFrom, rendered>>

\* beginFrame() returns no command buffer: the iteration does nothing.
SkipFrame ==
    /\ pc = "loop"
    /\ UNCHANGED vars

\* shouldClose() is true: the loop ends.
CloseWindow ==
    /\ pc = "loop"
    /\ pc' = "closed"
    /\ UNCHANGED <<physicsObjects, vectorField, strengthGravity, dt, substeps,
                   stepDelta, i, iterA, iterB, frame, stepStart, applied,
                   lastPair, steps, sampledFrom, rendered>>

(***************************************************************************)
(* GravityPhysicsSystem::update                                            *)
(***************************************************************************)
UpdateEnter ==
    /\ pc = "update"
    /\ stepDelta' = FDiv(dt, FromInt(substeps))
    /\ i' = 0
    /\ steps' = <<>>
    /\ pc' = "for"
    /\ UNCHANGED <<physicsObjects, vectorField, strengthGravity, dt, substeps,
                   iterA, iterB, frame, stepStart, applied, lastPair,
                   sampledFrom, rendered>>

\* Mutant: the loop runs once more.
LoopCondition_OffByOne == i <= substeps

LoopCondition == i < substeps

\* The loop calls stepSimulation(objs, stepDelta).
StepEnter ==
    /\ pc = "for"
    /\ LoopCondition
    /\ iterA' = 1
    /\ iterB' = 1
    /\ stepStart' = physicsObjects
    /\ applied' = <<>>
    /\ steps' = Append(steps, stepDelta)
    /\ pc' = "pairs"
    /\ UNCHANGED <<physicsObjects, vectorField, strengthGravity, dt, substeps,
                   stepDelta, i, frame, lastPair, sampledFrom, rendered>>

\* Mutant: the frame renders right after the physics update.
AfterUpdate_Render == "render"

\* What the frame does after gravitySystem.update, and after
\* vecFieldSystem.update.
AfterUpdate == "sample"

AfterSample == "render"

\* The loop is over: update returns, and the frame calls the sampler.
UpdateReturn ==
    /\ pc = "for"
    /\ ~LoopCondition
    /\ pc' = AfterUpdate
    /\ UNCHANGED <<physicsObjects, vectorField, strengthGravity, dt, substeps,
                   stepDelta, i, iterA, iterB, frame, stepStart, applied,
                   lastPair, steps, sampledFrom, rendered>>

(***************************************************************************)
(* GravityPhysicsSystem::stepSimulation                                    *)
(***************************************************************************)
EndIter == Len(physicsObjects) + 1

\* if (iterA == iterB) continue;
SamePair == iterA = iterB

PairSkip ==
    /\ pc = "pairs"
    /\ iterA # EndIter
    /\ iterB # EndIter
    /\ SamePair
    /\ iterB' = iterB + 1
    /\ UNCHANGED <<physicsObjects, vectorField, strengthGravity, dt, substeps,
                   stepDelta, i, iterA, pc, frame, stepStart, applied, lastPair,
                   steps, sampledFrom, rendered>>

\* The velocity change of one body: dt * force / mass.
Impulse(force, mass) == VDivS(VScale(stepDelta, force), mass)

\* Mutant: objB's velocity change is divided by objA's mass.
ApplyPair_WrongMass(objs, a, b) ==
    LET force == computeForce(objs[a], objs[b])
        va == VAdd(objs[a].velocity, Impulse(VNeg(force), objs[a].mass))
        vb == VAdd(objs[b].velocity, Impulse(force, objs[a].mass))
    IN  [objs EXCEPT ![a].velocity = va, ![b].velocity = vb]

\* Mutant: objA's position is updated inside the pairwise loop.
ApplyPair_MovesToo(objs, a, b) ==
    LET force == computeForce(objs[a], objs[b])
        va == VAdd(objs[a].velocity, Impulse(VNeg(force), objs[a].mass))
        vb == VAdd(objs[b].velocity, Impulse(force, objs[b].mass))
    IN  [objs EXCEPT ![a].velocity = va, ![b].velocity = vb,
                     ![a].translation = VAdd(objs[a].translation, VScale(stepDelta, va))]

\* Mutant: the force pushes objA and pulls objB the wrong way round.
ApplyPair_Repulsive(objs, a, b) ==
    LET force == computeForce(objs[a], objs[b])
        va == VAdd(objs[a].velocity, Impulse(force, objs[a].mass))
        vb == VAdd(objs[b].velocity, Impulse(VNeg(force), objs[b].mass))
    IN  [objs EXCEPT ![a].velocity = va, ![b].velocity = vb]

\* The body sequence after the force is applied to objA and to objB.
ApplyPair(objs, a, b) ==
    LET force == computeForce(objs[a], objs[b])
        va == VAdd(objs[a].velocity, Impulse(VNeg(force), objs[a].mass))
        vb == VAdd(objs[b].velocity, Impulse(force, objs[b].mass))
    IN  [objs EXCEPT ![a].velocity = va, ![b].velocity = vb]

PairApply ==
    /\ pc = "pairs"
    /\ iterA # EndIter
    /\ iterB # EndIter
    /\ ~SamePair
    /\ physicsObjects' = ApplyPair(physicsObjects, iterA, iterB)
    /\ lastPair' = [a |-> iterA, b |-> iterB,
                    force |-> computeForce(physicsObjects[iterA], physicsObjects[iterB]),
                    before |-> physicsObjects,
                    after |-> ApplyPair(physicsObjects, iterA, iterB)]
    /\ applied' = Append(applied, <<iterA, iterB>>)
    /\ iterB' = iterB + 1
    /\ UNCHANGED <<vectorField, strengthGravity, dt, substeps, stepDelta, i,
                   iterA, pc, frame, stepStart, steps, sampledFrom, rendered>>

\* Mutant: the inner loop starts at begin().
InnerStart_Begin(a) == 1

\* for (auto iterB = iterA; ...): the start of the inner loop.
InnerStart(a) == a

\* The inner loop is over: ++iterA, and iterB starts at iterA.
InnerEnd ==
    /\ pc = "pairs"
    /\ iterA # EndIter
    /\ iterB = EndIter
    /\ iterA' = iterA + 1
    /\ iterB' = InnerStart(iterA + 1)
    /\ UNCHANGED <<physicsObjects, vectorField, strengthGravity, dt, substeps,
                   stepDelta, i, pc, frame, stepStart, applied, lastPair, steps,
                   sampledFrom, rendered>>

\* The second loop: every body moves by dt times its velocity.
Moved(obj) ==
    [obj EXCEPT !.translation = VAdd(obj.translation, VScale(stepDelta, obj.velocity))]

\* The outer loop is over: the positions are updated, stepSimulation returns
\* and update's loop counter advances.
MovePositions ==
    /\ pc = "pairs"
    /\ iterA = EndIter
    /\ physicsObjects' = [k \in 1..Len(physicsObjects) |-> Moved(physicsObjects[k])]
    /\ i' = i + 1
    /\ pc' = "for"
    /\ UNCHANGED <<vectorField, strengthGravity, dt, substeps, stepDelta, iterA,
                   iterB, frame, stepStart, applied, lastPair, steps,
                   sampledFrom, rendered>>

(***************************************************************************)
(* Vec2FieldSystem::update                                                 *)
(***************************************************************************)
RECURSIVE SumForces(_, _, _)
SumForces(objs, k, vf) ==
    IF k = 0 THEN ZeroVec
    ELSE VAdd(SumForces(objs, k - 1, vf), computeForce(objs[k], vf))

Direction(objs, vf) == SumForces(objs, Len(objs), vf)

\* Mutant: no clamp.
Saturation_NoClamp(direction) == FDiv(FLog(FAdd(Length(direction), One)), Three)

Saturation(direction) ==
    Clamp(FDiv(FLog(FAdd(Length(direction), One)), Three), Zero, One)

FieldScale(direction) == FAdd(ScaleMin, FMul(ScaleRange, Saturation(direction)))

\* Mutant: the whole scale is written, not scale.x alone.
Sampled_WholeScale(objs, vf) ==
    LET direction == Direction(objs, vf)
    IN  [vf EXCEPT !.scale = Vec2(FieldScale(direction), FieldScale(direction)),
                   !.rotation = FAtan2(direction.y, direction.x)]

Sampled(objs, vf) ==
    LET direction == Direction(objs, vf)
    IN  [vf EXCEPT !.scale.x = FieldScale(direction),
                   !.rotation = FAtan2(direction.y, direction.x)]

FieldUpdate ==
    /\ pc = "sample"
    /\ vectorField' = [k \in 1..Len(vectorField) |-> Sampled(physicsObjects, vectorField[k])]
    /\ sampledFrom' = physicsObjects
    /\ pc' = AfterSample
    /\ UNCHANGED <<physicsObjects, strengthGravity, dt, substeps, stepDelta, i,
                   iterA, iterB, frame, stepStart, applied, lastPair, steps,
                   rendered>>

\* renderGameObjects(physicsObjects), renderGameObjects(vectorField), endFrame.
Render ==
    /\ pc = "render"
    /\ rendered' = [frame |-> frame + 1, bodies |-> physicsObjects,
                    field |-> vectorField, steps |-> steps,
                    sampledFrom |-> sampledFrom]
    /\ frame' = frame + 1
    /\ pc' = "loop"
    /\ UNCHANGED <<physicsObjects, vectorField, strengthGravity, dt, substeps,
                   stepDelta, i, iterA, iterB, stepStart, applied, lastPair,
                   steps, sampledFrom>>

Next ==
    \/ BeginFrame
    \/ SkipFrame
    \/ CloseWindow
    \/ UpdateEnter
    \/ StepEnter
    \/ UpdateReturn
    \/ PairSkip
    \/ PairApply
    \/ InnerEnd
    \/ MovePositions
    \/ FieldUpdate
    \/ Render

Spec == Init /\ [][Next]_vars

(***************************************************************************)
(* Exact arithmetic on floats, for statements about sums and tolerances:   *)
(* a term [m, e] is the number m * 2^e, with any integer m.                *)
(***************************************************************************)
RECURSIVE StripZeros(_, _)
StripZeros(m, e) ==
    IF m = 0 THEN Zero
    ELSE IF m % 2 = 0 THEN StripZeros(m \div 2, e + 1)
    ELSE [m |-> m, e |-> e]

ExMul(a, b) ==
    LET sa == StripZeros(a.m, a.e)
        sb == StripZeros(b.m, b.e)
    IN  StripZeros(sa.m * sb.m, sa.e + sb.e)

ExScale(a, k) == [m |-> a.m, e |-> a.e + k]

RECURSIVE SeqMax(_)
SeqMax(s) ==
    IF Len(s) = 1 THEN s[1]
    ELSE LET r == SeqMax(Tail(s)) IN IF s[1] >= r THEN s[1] ELSE r

RECURSIVE SeqSum(_)
SeqSum(s) == IF s = <<>> THEN 0 ELSE s[1] + SeqSum(Tail(s))

\* The sign (-1, 0, 1) of the exact sum of a sequence of terms.  The terms
\* within a window below the largest exponent are added exactly; the terms
\* below the window cannot change the sign of a sum that is large enough,
\* and otherwise the sum is one more term among them.
RECURSIVE ExSign(_)
ExSign(ts) ==
    LET nz == SelectSeq(ts, LAMBDA t : t.m # 0)
    IN  IF nz = <<>> THEN 0
        ELSE LET n == Len(nz)
                 top == SeqMax([k \in 1..n |-> nz[k].e])
                 len == SeqMax([k \in 1..n |-> BitLen(Abs(nz[k].m))])
                 base == top - (len + BitLen(n) + 2)
                 hi == SelectSeq(nz, LAMBDA t : t.e >= base)
                 lo == SelectSeq(nz, LAMBDA t : t.e < base)
                 acc == SeqSum([k \in 1..Len(hi) |-> hi[k].m * Pow2(hi[k].e - base)])
             IN  IF lo = <<>> \/ Abs(acc) >= Pow2(len - 1 + BitLen(n))
                 THEN Sgn(acc)
                 ELSE ExSign(IF acc = 0 THEN lo
                             ELSE Append(lo, [m |-> acc, e |-> base]))

\* The body positions change only in MovePositions, which ends at "for":
\* the states at "loop" and "for" hold every position the bodies ever have.
PositionsSettled == pc \in {"loop", "for"}

\* The pairs of distinct bodies of the current body sequence.
BodyPairs ==
    {ab \in (1..Len(physicsObjects)) \X (1..Len(physicsObjects)) : ab[1] # ab[2]}

\* Every (source, target) the program can hand to computeForce: two bodies,
\* or a body and a field line.
ForceArguments ==
    {<<physicsObjects[ab[1]], physicsObjects[ab[2]]>> : ab \in BodyPairs}
    \cup {<<physicsObjects[a], vectorField[k]>> :
             a \in 1..Len(physicsObjects), k \in 1..Len(vectorField)}

(***************************************************************************)
(* C1 (as stated): for any two bodies A and B with nonzero separation,     *)
(* computeForce(A,B) = -computeForce(B,A), for every pair of positions and *)
(* masses.                                                                 *)
(***************************************************************************)
C1_AntisymmetryForAllMasses ==
    PositionsSettled => \A ab \in BodyPairs :
        LET objA == physicsObjects[ab[1]]
            objB == physicsObjects[ab[2]]
        IN  objA.translation # objB.translation
            => computeForce(objA, objB) = VNeg(computeForce(objB, objA))

(***************************************************************************)
(* C1 (amended): for any two bodies A and B with nonzero separation,       *)
(* computeForce(A,B) = -computeForce(B,A) whenever the rounded product     *)
(* (strength * mass_B) * mass_A equals (strength * mass_A) * mass_B, as it *)
(* does for equal masses and when one mass is 1.                           *)
(***************************************************************************)
MassProductCommutes(objA, objB) ==
    FMul(FMul(strengthGravity, objB.mass), objA.mass)
        = FMul(FMul(strengthGravity, objA.mass), objB.mass)

C1_AntisymmetryWhenProductCommutes ==
    PositionsSettled => \A ab \in BodyPairs :
        LET objA == physicsObjects[ab[1]]
            objB == physicsObjects[ab[2]]
        IN  (objA.translation # objB.translation /\ MassProductCommutes(objA, objB))
            => computeForce(objA, objB) = VNeg(computeForce(objB, objA))

\* Two bodies of different masses, apart, with a nonzero force between them
\* that is the same in both directions.
C1_Witness ==
    PositionsSettled /\ steps # <<>> /\ \E ab \in BodyPairs :
        LET objA == physicsObjects[ab[1]]
            objB == physicsObjects[ab[2]]
        IN  /\ objA.mass # objB.mass
            /\ MassProductCommutes(objA, objB)
            /\ computeForce(objA, objB) # ZeroVec
            /\ computeForce(objA, objB).y # Zero
            /\ computeForce(objA, objB) = VNeg(computeForce(objB, objA))

(***************************************************************************)
(* C3: computeForce returns the zero vector whenever the squared distance  *)
(* between source and target is below 1e-10, whatever the masses and the   *)
(* strength, and a pairwise update of such a pair leaves both velocities   *)
(* unchanged.                                                              *)
(***************************************************************************)
SquaredDistance(objA, objB) ==
    LET d == VSub(objA.translation, objB.translation) IN Dot(d, d)

C3_NearZeroClamp ==
    /\ PositionsSettled => \A ft \in ForceArguments :
          FLess(SquaredDistance(ft[1], ft[2]), DistanceEpsilon)
          => computeForce(ft[1], ft[2]) = ZeroVec
    /\ (lastPair.a # 0
        /\ FLess(SquaredDistance(lastPair.before[lastPair.a],
                                 lastPair.before[lastPair.b]), DistanceEpsilon))
       => (lastPair.force = ZeroVec /\ lastPair.after = lastPair.before)

\* A pairwise update was applied to two bodies of different masses that are
\* at different positions less than the clamp apart, and moving.
C3_Witness ==
    /\ lastPair.a # 0
    /\ LET objA == lastPair.before[lastPair.a]
           objB == lastPair.before[lastPair.b]
       IN  /\ objA.translation # objB.translation
           /\ objA.mass # objB.mass
           /\ objA.velocity # ZeroVec
           /\ FLess(SquaredDistance(objA, objB), DistanceEpsilon)
           /\ strengthGravity # One

(***************************************************************************)
(* C4: two bodies of mass 1 at (1,0) and (-1,0) at rest, strength 1, one   *)
(* update with dt = 1 and substeps = 1: the force has magnitude 0.25 along *)
(* the x axis, the velocities get equal and opposite nonzero x components, *)
(* and after the position update each body has moved toward the other.     *)
(***************************************************************************)
Scenario ==
    /\ stepStart = <<BodyPool[1], BodyPool[2]>>
    /\ strengthGravity = One
    /\ dt = One
    /\ substeps = 1
    /\ frame = 0
    /\ pc = "for"
    /\ i = 1

Quarter == Ratio(1, 4, 0)

C4_Attraction ==
    Scenario =>
        LET objA == physicsObjects[1]
            objB == physicsObjects[2]
        IN  /\ Length(lastPair.force) = Quarter
            /\ lastPair.force.y = Zero
            /\ objA.velocity.x = FNeg(objB.velocity.x)
            /\ objA.velocity.x # Zero
            /\ objA.velocity.y = Zero /\ objB.velocity.y = Zero
            \* A started at x = 1 and B at x = -1: both moved inward
            /\ FLess(objA.translation.x, One)
            /\ FLess(FNeg(One), objB.translation.x)
            /\ FLess(objB.translation.x, objA.translation.x)
            /\ FLess(FSub(objA.translation.x, objB.translation.x), FromInt(2))
            /\ objA.translation = Vec2(Ratio(3, 4, 0), Zero)
            /\ objB.translation = Vec2(FNeg(Ratio(3, 4, 0)), Zero)

C4_Witness == Scenario /\ lastPair.a = 1 /\ lastPair.b = 2

(***************************************************************************)
(* Momentum, exactly: the terms mass * velocity[c] of a body sequence, for *)
(* a component c ("x" or "y").                                             *)
(***************************************************************************)
ExNeg(ts) == [k \in 1..Len(ts) |-> [m |-> -ts[k].m, e |-> ts[k].e]]

ExAbs(t) == [m |-> Abs(t.m), e |-> t.e]

Momentum(objs, c) ==
    [k \in 1..Len(objs) |-> ExMul(objs[k].mass, objs[k].velocity[c])]

(***************************************************************************)
(* C2 (as stated): total momentum is conserved by the integrator: the sum  *)
(* over the bodies of mass * velocity is the same after every internal     *)
(* sub-step as before it.                                                  *)
(***************************************************************************)
C2_MomentumExactlyConserved ==
    (pc = "for" /\ steps # <<>>) =>
        \A c \in {"x", "y"} :
            ExSign(Momentum(physicsObjects, c) \o ExNeg(Momentum(stepStart, c))) = 0

(***************************************************************************)
(* C2 (amended): total momentum is conserved up to floating-point          *)
(* rounding: every pairwise application changes only the velocities of its *)
(* two bodies A and B, and in each component                               *)
(*   |mass_A * dv_A + mass_B * dv_B|                                       *)
(*     <= 2^-MantBits * (mass_A*|v_A'| + mass_B*|v_B'| + 2*|dt_step * force|), *)
(* where v' is the velocity after the application and dv = v' - v.         *)
(***************************************************************************)
PairMomentumChange(c) ==
    LET objA == lastPair.before[lastPair.a]
        objB == lastPair.before[lastPair.b]
        newA == lastPair.after[lastPair.a]
        newB == lastPair.after[lastPair.b]
    IN  << ExMul(newA.mass, newA.velocity[c]), ExMul(FNeg(objA.mass), objA.velocity[c]),
           ExMul(newB.mass, newB.velocity[c]), ExMul(FNeg(objB.mass), objB.velocity[c]) >>

PairTolerance(c) ==
    LET newA == lastPair.after[lastPair.a]
        newB == lastPair.after[lastPair.b]
    IN  << ExScale(ExAbs(ExMul(newA.mass, newA.velocity[c])), -MantBits),
           ExScale(ExAbs(ExMul(newB.mass, newB.velocity[c])), -MantBits),
           ExScale(ExAbs(FMul(stepDelta, lastPair.force[c])), 1 - MantBits) >>

C2_MomentumWithinRounding ==
    lastPair.a # 0 =>
        /\ \A k \in 1..Len(lastPair.before) :
              /\ k \notin {lastPair.a, lastPair.b} => lastPair.after[k] = lastPair.before[k]
              /\ lastPair.after[k].mass = lastPair.before[k].mass
              /\ lastPair.after[k].translation = lastPair.before[k].translation
        /\ \A c \in {"x", "y"} :
              /\ ExSign(PairTolerance(c) \o PairMomentumChange(c)) >= 0
              /\ ExSign(PairTolerance(c) \o ExNeg(PairMomentumChange(c))) >= 0

\* A force was applied to two bodies of different masses, and the momentum
\* of the pair changed by a rounding error.
C2_Witness ==
    /\ lastPair.a # 0
    /\ lastPair.force # ZeroVec
    /\ lastPair.before[lastPair.a].mass # lastPair.before[lastPair.b].mass
    /\ ExSign(PairMomentumChange("x")) # 0

(***************************************************************************)
(* C5: after Vec2FieldSystem::update every field line's scale.x lies in    *)
(* [0.005, 0.05], after any sequence of physics and sampler updates, and   *)
(* with a zero accumulated direction (an empty body sequence, for one) it  *)
(* is exactly 0.005.  0.05 is the float the program reaches at saturation, *)
(* 0.005f + 0.045f.                                                        *)
(***************************************************************************)
ScaleMax == FAdd(ScaleMin, ScaleRange)

C5_ScaleBounded ==
    /\ \A k \in 1..Len(vectorField) :
          /\ ~FLess(vectorField[k].scale.x, ScaleMin)
          /\ ~FLess(ScaleMax, vectorField[k].scale.x)
    /\ pc = "render" =>
          \A k \in 1..Len(vectorField) :
              Direction(sampledFrom, vectorField[k]) = ZeroVec
              => vectorField[k].scale.x = ScaleMin

\* The sampler has run on a force so strong that the clamp cut it.
C5_Witness ==
    /\ pc = "render"
    /\ \E k \in 1..Len(vectorField) :
          /\ vectorField[k].scale.x = ScaleMax
          /\ FLess(One, FDiv(FLog(FAdd(Length(Direction(sampledFrom, vectorField[k])), One)),
                             Three))

(***************************************************************************)
(* C6: GravityPhysicsSystem::update never changes a field line;            *)
(* Vec2FieldSystem::update never changes a body, and of a field line it    *)
(* writes only scale.x and rotation.                                       *)
(***************************************************************************)
C6_DisjointWrites ==
    [][ /\ pc \in {"update", "for", "pairs"} => vectorField' = vectorField
        /\ pc = "sample" =>
              /\ physicsObjects' = physicsObjects
              /\ Len(vectorField') = Len(vectorField)
              /\ \A k \in 1..Len(vectorField) :
                    [vectorField'[k] EXCEPT !.scale.x = vectorField[k].scale.x,
                                            !.rotation = vectorField[k].rotation]
                        = vectorField[k] ]_vars

\* Both systems have acted: a force changed velocities, and the sampler
\* changed the scale.x and the rotation of a field line.
C6_Witness ==
    /\ pc = "render"
    /\ lastPair.a # 0
    /\ lastPair.after # lastPair.before
    /\ \E k \in 1..Len(vectorField) :
          /\ vectorField[k].scale.x # InitialField[k].scale.x
          /\ vectorField[k].rotation # InitialField[k].rotation

(***************************************************************************)
(* C7 (as stated): update runs to completion and performs exactly substeps *)
(* internal steps, each of size dt/substeps, so that the simulated time    *)
(* advanced by one call is dt.                                             *)
(***************************************************************************)
ExactlySubstepsSteps ==
    /\ Len(steps) = substeps
    /\ i = substeps
    /\ \A k \in 1..Len(steps) : steps[k] = FDiv(dt, FromInt(substeps))

\* The sum of the step sizes of the call, minus dt, as exact terms.
TimeError == steps \o <<FNeg(dt)>>

TimeTolerance == [k \in 1..Len(steps) |-> ExScale(steps[k], -MantBits)]

C7_StepsOfOneCall ==
    /\ pc \in {"for", "pairs"} => (Len(steps) <= substeps /\ i <= substeps)
    /\ pc = "sample" =>
          /\ ExactlySubstepsSteps
          /\ ExSign(TimeTolerance \o TimeError) >= 0
          /\ ExSign(TimeTolerance \o ExNeg(TimeError)) >= 0

\* update is running: from its entry to its return.
Updating == pc \in {"update", "for", "pairs"}

\* What is left of the call: the steps to go, then the bodies the outer loop
\* has to go, then the bodies the inner loop has to go.
Measure ==
    LET n == Len(physicsObjects) + 2
    IN  IF pc = "update" THEN (substeps + 1) * n * n
        ELSE IF pc = "for" THEN (substeps - i) * n * n + n * n - 1
        ELSE ((substeps - i) * n + (EndIter - iterA)) * n + (EndIter - iterB)

\* The iterators stay within [begin(), end()], so one of PairSkip, PairApply,
\* InnerEnd and MovePositions can always be taken, and none reads past the end.
IteratorsInRange ==
    pc = "pairs" => (iterA \in 1..EndIter /\ iterB \in iterA..EndIter)

C8_PositionsAfterVelocities ==
    /\ pc = "pairs" =>
          /\ \A k \in 1..Len(physicsObjects) :
                physicsObjects[k].translation = stepStart[k].translation
          /\ applied # <<>> =>
                lastPair.force = computeForce(stepStart[lastPair.a], stepStart[lastPair.b])
    /\ (pc = "for" /\ steps # <<>>) =>
          \A k \in 1..Len(physicsObjects) :
              physicsObjects[k].translation
                  = VAdd(stepStart[k].translation,
                         VScale(stepDelta, physicsObjects[k].velocity))

\* A step is over in which a force changed a velocity and the body moved by
\* its new velocity, not by the one it had when the step began.
C8_Witness ==
    /\ pc = "for"
    /\ steps # <<>>
    /\ \E k \in 1..Len(physicsObjects) :
          /\ physicsObjects[k].velocity # stepStart[k].velocity
          /\ physicsObjects[k].translation
                # VAdd(stepStart[k].translation, VScale(stepDelta, stepStart[k].velocity))

(***************************************************************************)
(* C9: in each internal step the pairwise pass visits every unordered pair *)
(* of distinct bodies exactly once, n*(n-1)/2 applications for n bodies:   *)
(* no body is paired with itself, no pair is done in both orders; with     *)
(* zero or one body no velocity changes.                                   *)
(***************************************************************************)
PassOver == (pc = "pairs" /\ iterA = EndIter) \/ (pc = "for" /\ steps # <<>>)

C9_EachPairOnce ==
    /\ pc \in {"pairs", "for"} =>
          /\ \A k \in 1..Len(applied) : applied[k][1] # applied[k][2]
          /\ \A k, l \in 1..Len(applied) :
                k # l => {applied[k][1], applied[k][2]} # {applied[l][1], applied[l][2]}
    /\ PassOver =>
          /\ 2 * Len(applied) = Len(physicsObjects) * (Len(physicsObjects) - 1)
          /\ \A ab \in BodyPairs :
                \E k \in 1..Len(applied) : {applied[k][1], applied[k][2]} = {ab[1], ab[2]}
          /\ Len(physicsObjects) <= 1 =>
                \A k \in 1..Len(physicsObjects) :
                    physicsObjects[k].velocity = stepStart[k].velocity

\* The pass over three bodies is over: three pairs.
C9_Witness ==
    /\ PassOver
    /\ Len(physicsObjects) = 3
    /\ Len(applied) = 3

(***************************************************************************)
(* C10: in every frame the order is physics update, field sampling,        *)
(* rendering, each complete before the next begins: the sampler reads the  *)
(* bodies the frame's completed update produced, and rendering sees only   *)
(* bodies and field lines of a frame whose update and sampling are over.   *)
(***************************************************************************)
C10_FrameOrder ==
    /\ pc = "sample" => ExactlySubstepsSteps
    /\ pc = "render" =>
          /\ ExactlySubstepsSteps
          /\ sampledFrom = physicsObjects
          /\ \A k \in 1..Len(vectorField) :
                vectorField[k] = Sampled(physicsObjects, vectorField[k])
    /\ rendered.frame # 0 =>
          /\ Len(rendered.steps) = substeps
          /\ rendered.bodies = rendered.sampledFrom
    /\ (rendered.frame # 0 /\ pc = "loop") =>
          /\ rendered.bodies = physicsObjects
          /\ rendered.field = vectorField
          /\ \A k \in 1..Len(rendered.field) :
                rendered.field[k] = Sampled(rendered.bodies, rendered.field[k])

\* A second frame has been rendered, with bodies that moved and a field
\* line that the sampler changed.
C10_Witness ==
    /\ rendered.frame = 2
    /\ frame = 2
    /\ rendered.bodies # <<>>
    /\ lastPair.after # lastPair.before
    /\ \E k \in 1..Len(rendered.field) : rendered.field[k].scale.x # ScaleMin

====
